---- MODULE Spec2Model ----
(***************************************************************************)
(* python_monad: the Maybe monad (monad/maybe.py over monad/monad_base.py), *)
(* the state-accumulating ContextMonad (monad/state_monad.py) and the       *)
(* path-addressable DictTree (dict_tree.py).                                *)
(*                                                                          *)
(* Three specifications share the module: SpecMaybe drives Maybe values     *)
(* through unit/Just/fmap/bind/apply/flatten/flattened, SpecContext drives  *)
(* nested ContextMonad values through flatten/flattened/bind/fmap/unit, and *)
(* Spec drives a heap of DictTree nodes through its key, path and upward    *)
(* navigation operations.                                                   *)
(***************************************************************************)
EXTENDS Integers, Sequences, FiniteSets, TLC

VARIABLES
    m,        \* SpecMaybe: the value the last operation returned (or raised)
    mop,      \* SpecMaybe: name of the last operation
    marg,     \* SpecMaybe: the value the last operation was given
    mfn,      \* SpecMaybe: the function (or wrapped function) it was given
    mcalls,   \* SpecMaybe: how often the last step invoked the supplied function
    mself,    \* SpecMaybe: the value the operation was given, as the call left it
    mretself, \* SpecMaybe: whether the returned object is the instance itself
    msteps,   \* SpecMaybe: number of operations performed so far
    cm,       \* SpecContext: the ContextMonad instance operated on
    cret,     \* SpecContext: the instance the last operation returned
    cretself, \* SpecContext: whether the returned object is cm itself
    cexc,     \* SpecContext: the exception the last operation raised, or ""
    cop,      \* SpecContext: name of the last operation
    carg,     \* SpecContext: cm as it was before the last operation
    cfn,      \* SpecContext: the function the last operation was given
    csteps,   \* SpecContext: number of operations performed so far
    heap,     \* Spec: the DictTree nodes created so far, by node number
    tlast,    \* Spec: the last operation and the arguments it was given
    tret,     \* Spec: the value the last operation returned
    texc,     \* Spec: the exception the last operation raised (name "" if none)
    tstore,   \* Spec: the container, key and value the last operation stored
    tops,     \* Spec: the names of the operations performed so far
    tsteps    \* Spec: number of operations performed so far

mvars == <<m, mop, marg, mfn, mcalls, mself, mretself, msteps>>
cvars == <<cm, cret, cretself, cexc, cop, carg, cfn, csteps>>
tvars == <<heap, tlast, tret, texc, tstore, tops, tsteps>>
vars == <<m, mop, marg, mfn, mcalls, mself, mretself, msteps,
          cm, cret, cretself, cexc, cop, carg, cfn, csteps,
          heap, tlast, tret, texc, tstore, tops, tsteps>>

-----------------------------------------------------------------------------
(* Bounds *)
MaxDepth == 3     \* deepest nesting of Maybe wrappers built
MaxInt == 1       \* integer payloads drawn at Init are 0..MaxInt
MaxSteps == 3     \* operations per behaviour
MaxCtxDepth == 3  \* deepest nesting of ContextMonad instances built
MaxCtxSteps == 4  \* ContextMonad operations per behaviour
MaxNodes == 3     \* DictTree nodes created per behaviour
MaxTreeSteps == 3 \* DictTree operations per behaviour

-----------------------------------------------------------------------------
(* Python values.  A value is its innermost object under `depth` Maybe      *)
(* wrappers: depth 0 is a plain object, depth d > 0 a Maybe whose _value    *)
(* has depth d - 1.  cap holds what a closure captured.                     *)
Val(kind, n, name, cap) ==
    [depth |-> 0, kind |-> kind, n |-> n, name |-> name, cap |-> cap]

PyInt(i) == Val("int", i, "", <<>>)
Function(name) == Val("function", 0, name, <<>>)
Exc(name) == Val("exception", 0, name, <<>>)
IsExc(v) == v.depth = 0 /\ v.kind = "exception"

\* Maybe._Nothing: ClassVar[object] = object(), the process-wide sentinel
_Nothing == Val("object", 0, "", <<>>)
\* any object() other than the sentinel
OtherObject == Val("object", 1, "", <<>>)

\* Maybe.__init__: self._value = value
Maybe(value) == [value EXCEPT !.depth = @ + 1]
\* isinstance(value, Maybe)
IsMaybe(v) == v.depth > 0
\* instance._value
_value(instance) == [instance EXCEPT !.depth = @ - 1]

\* Maybe.is_nothing: self._value is self._Nothing
is_nothing(self) == IsMaybe(self) /\ _value(self) = _Nothing

\* copy.copy: ints and functions are returned as they are, a Maybe is copied
\* with the same _value, a bare object() is reconstructed as a new object.
copy(v) == IF v.depth = 0 /\ v.kind = "object" THEN OtherObject ELSE v

RECURSIVE _flatten_cls(_)
\* (an `if` in place of the `while`: one level is removed)
_flatten_cls_once(instance) ==
    IF IsExc(instance) THEN instance
    ELSE IF IsMaybe(_value(instance))
         THEN Maybe(_value(_value(instance)))
         ELSE instance
\* Maybe._flatten_cls: while isinstance(instance._value, cls): unwrap
_flatten_cls(instance) ==
    IF IsExc(instance) THEN instance
    ELSE IF IsMaybe(_value(instance))
         THEN _flatten_cls(Maybe(_value(_value(instance))))
         ELSE instance

\* Monad.flatten: self.__class__._flatten_cls(self); return self
flatten(self) == _flatten_cls(self)

\* A call on an instance, with object identity: `self` is the instance as the
\* call left it, `ret` what was returned, `same` whether ret is that instance.
\* Monad.flatten unwraps the instance itself and returns it.
flatten_inplace(self) ==
    [self |-> _flatten_cls(self), ret |-> _flatten_cls(self), same |-> TRUE]
\* Monad.flattened: result = copy.copy(instance); cls._flatten_cls(result);
\* return result.  The copy is a new object holding the same _value, and
\* _flatten_cls rebinds result._value only.
flattened(instance) ==
    [self |-> instance, ret |-> _flatten_cls(copy(instance)), same |-> FALSE]

\* Maybe.unit
unit(value) ==
    IF IsMaybe(value)
    THEN flatten(Maybe(copy(_value(value))))
    ELSE Maybe(value)

\* Maybe.Nothing: cls.unit(cls._Nothing)
Nothing == unit(_Nothing)

\* Maybe.value: self._value if not self.is_nothing() else self.Nothing()
value(self) == IF ~is_nothing(self) THEN _value(self) ELSE Nothing

\* Just(val): return Maybe(val)
Just(val) == Maybe(val)

-----------------------------------------------------------------------------
(* Functions handed to fmap/bind/apply.  The named ones are the callers'    *)
(* functions (inputs); the others are the closures python_monad builds.     *)
MonadicFns ==
    {"const_just", "const_nothing", "just", "just_just", "just_nothing", "is_maybe"}
PlainFns == {"succ", "ident"}

CallUser(name, y) ==
    CASE name = "const_just"    -> Just(PyInt(0))
      [] name = "const_nothing" -> Nothing
      [] name = "just"          -> Just(y)
      [] name = "just_just"     -> Just(Just(y))
      [] name = "just_nothing"  -> Just(Nothing)
      [] name = "is_maybe"      -> Just(PyInt(IF IsMaybe(y) THEN 1 ELSE 0))
      [] name = "succ"          -> IF y.depth = 0 /\ y.kind = "int"
                                   THEN PyInt(y.n + 1) ELSE y
      [] name = "ident"         -> y

\* call_with(*args): def caller(func): return func(*args); return caller
call_with == Val("call_with", 0, "", <<>>)
caller(x) == Val("caller", 0, "", <<x>>)
\* compose_unary(*funcs): composed(arg) = reduce(fn(res), reversed(funcs), arg)
compose_unary(funcs) == Val("composed", 0, "", funcs)
\* the classmethod cls.unit and the bound method monad_function.bind as values
unit_fn == Val("unit", 0, "", <<>>)
bound_bind(self) == Val("bound_bind", 0, "", <<self>>)

CallableKinds == {"function", "call_with", "caller", "composed", "unit", "bound_bind"}

RECURSIVE Call(_, _), composed(_, _), _fmap_cls_run(_, _), bind(_, _)

\* func(arg) for any Python value func
Call(func, arg) ==
    IF IsExc(arg) THEN arg
    ELSE IF func.depth > 0 \/ func.kind \notin CallableKinds
    THEN Exc("TypeError")      \* 'Maybe' object is not callable
    ELSE CASE func.kind = "function"   -> CallUser(func.name, arg)
           [] func.kind = "call_with"  -> caller(arg)
           [] func.kind = "caller"     -> Call(arg, func.cap[1])
           [] func.kind = "composed"   -> composed(func.cap, arg)
           [] func.kind = "unit"       -> unit(arg)
           [] func.kind = "bound_bind" -> bind(func.cap[1], arg)

\* the body of compose_unary's composed(): the last function is applied first
composed(funcs, arg) ==
    IF funcs = <<>> THEN arg
    ELSE Call(Head(funcs), composed(Tail(funcs), arg))

\* (without the is_nothing() test: func is always invoked)
_fmap_cls_noshort(func, instance) ==
    LET r == Call(func, value(instance))
    IN  [ret |-> IF IsExc(r) THEN r ELSE Maybe(r), invoked |-> TRUE]
\* Maybe._fmap_cls, with whether func was invoked
_fmap_cls_run(func, instance) ==
    IF is_nothing(instance)
    THEN [ret |-> Nothing, invoked |-> FALSE]
    ELSE LET r == Call(func, value(instance))
         IN  [ret |-> IF IsExc(r) THEN r ELSE Maybe(r), invoked |-> TRUE]

_fmap_cls(func, instance) == _fmap_cls_run(func, instance).ret

\* Functor.fmap: return self._fmap_cls(func, self)
fmap(self, func) == _fmap_cls(func, self)

\* Monad.bind: result = self.fmap(func); _flatten_cls(result); return result
bind(self, func) == _flatten_cls(fmap(self, func))

\* Monad.apply
apply(monad_function, monad_instance) ==
    flatten(fmap(monad_instance,
                 compose_unary(<<bound_bind(monad_function),
                                 compose_unary(<<unit_fn, call_with>>)>>)))

-----------------------------------------------------------------------------
(* ContextMonad over DictState (monad/state_monad.py).  A nested instance   *)
(* is the sequence of its layers' states, outermost first, over the         *)
(* innermost integer payload.  A state is a mapping together with the class *)
(* of the object holding it, DictState or the built-in dict.                *)
Keys == {"a", "b"}
Vals == {1, 2}
Mappings == UNION {[D -> Vals] : D \in SUBSET Keys}

\* DictState(...): a DictState holding the mapping
DictState(map) == [cls |-> "DictState", map |-> map]
DictStates == {DictState(mp) : mp \in Mappings}

\* dict.__or__: a new built-in dict, the right operand's keys winning
dict_or(self, other) ==
    [cls |-> "dict",
     map |-> [k \in DOMAIN self.map \cup DOMAIN other.map |->
                 IF k \in DOMAIN other.map THEN other.map[k] ELSE self.map[k]]]

\* DictState.__add__: return super().__or__(other)
DictState_add(self, other) == dict_or(self, other)

\* `a += b`: neither DictState nor dict defines __iadd__, so a.__add__(b) is
\* tried, which only DictState has; dict + DictState is a TypeError.
iadd(a, b) ==
    IF a.cls = "DictState"
    THEN [exc |-> "", state |-> DictState_add(a, b)]
    ELSE [exc |-> "TypeError", state |-> a]

\* ContextMonad.__init__(value, state) around an inner instance or a payload
ContextMonad(inner, state) == [states |-> <<state>> \o inner.states, val |-> inner.val]
Payload(v) == [states |-> <<>>, val |-> v]
IsContextMonad(v) == Len(v.states) > 0
\* instance._value and instance._state
Ctx_value(instance) == [instance EXCEPT !.states = Tail(@)]
Ctx_state(instance) == instance.states[1]

\* ContextMonad._flatten_cls: while isinstance(value := instance._value, cls):
\*     instance._value = value._value; instance._state += value._state
\* Returns the instance as the loop left it and the exception it raised.
RECURSIVE ContextMonad_flatten_cls(_)
ContextMonad_flatten_cls(instance) ==
    IF IsContextMonad(Ctx_value(instance))
    THEN LET val == Ctx_value(instance)
             sum == iadd(Ctx_state(instance), Ctx_state(val))
             unwrapped == ContextMonad(Ctx_value(val), sum.state)
         IN  IF sum.exc # ""
             THEN [inst |-> unwrapped, exc |-> sum.exc]
             ELSE ContextMonad_flatten_cls(unwrapped)
    ELSE [inst |-> instance, exc |-> ""]

\* Monad.flatten on a ContextMonad: _flatten_cls(self); return self.  When
\* the loop raises, self stays as the loop left it and nothing is returned.
ContextMonad_flatten(self) ==
    LET r == ContextMonad_flatten_cls(self)
    IN  [self |-> r.inst, ret |-> r.inst, exc |-> r.exc, same |-> r.exc = ""]
\* Monad.flattened on a ContextMonad: the loop runs on copy.copy(instance);
\* it rebinds the copy's _value and _state (`+=` builds a new mapping).
ContextMonad_flattened(instance) ==
    LET r == ContextMonad_flatten_cls(instance)
    IN  [self |-> instance, ret |-> r.inst, exc |-> r.exc, same |-> FALSE]

\* ContextMonad._fmap_cls: cls(func(instance.value), instance.state); the
\* class defines _value and _state only, so reading instance.value raises.
ContextMonad_fmap_cls(func, instance) ==
    [inst |-> instance, exc |-> "AttributeError"]

\* ContextMonad.unit: cls(value, cls.ContextType.zero()); DictState.zero is a
\* class property that already is DictState(), and calling that raises.
ContextMonad_unit(v) ==
    [inst |-> Payload(v), exc |-> "TypeError"]

\* Monad.bind on a ContextMonad: fmap, then _flatten_cls on the result
ContextMonad_bind(self, func) ==
    LET result == ContextMonad_fmap_cls(func, self)
    IN  IF result.exc # "" THEN result ELSE ContextMonad_flatten_cls(result.inst)

\* what the callers' functions passed to bind return: a ContextMonad, one
\* level or two, around the value they were given
CtxFns == {"with_b", "nested"}
CtxFnStates(f) ==
    IF f = "with_b"
    THEN <<DictState([k \in {"b"} |-> 2])>>
    ELSE <<DictState([k \in {"a"} |-> 2]), DictState([k \in {"b"} |-> 1])>>

-----------------------------------------------------------------------------
(* DictTree (dict_tree.py).  heap[n] is node n: its _parent (0 for None)    *)
(* and its items, a mapping from keys to values.  A value is None, a leaf   *)
(* integer or a reference to a node.                                        *)
TNone == [kind |-> "none", n |-> 0]
TLeaf(i) == [kind |-> "int", n |-> i]
TNode(n) == [kind |-> "node", n |-> n]
\* isinstance(v, self.__class__)
IsTree(v) == v.kind = "node"

TreeKeys == {"a", "b"}

\* DictTree.__init__: self._parent = None; an empty mapping
DictTree_init(h) == Append(h, [parent |-> 0, items |-> <<>>])

\* dict.__setitem__ and dict.__delitem__, which DictTree inherits
dict_setitem(h, self, key, v) ==
    LET old == h[self].items
    IN  [h EXCEPT ![self].items =
            [k \in DOMAIN old \cup {key} |-> IF k = key THEN v ELSE old[k]]]
dict_delitem(h, self, key) ==
    LET old == h[self].items
    IN  [h EXCEPT ![self].items = [k \in DOMAIN old \ {key} |-> old[k]]]

\* DictTree.__setitem__: a tree node stored as a value gets self as _parent
__setitem__(h, self, key, v) ==
    LET h1 == IF IsTree(v) THEN [h EXCEPT ![v.n].parent = self] ELSE h
    IN  dict_setitem(h1, self, key, v)

\* DictTree.insert_at: return super().__setitem__(key, value)
insert_at(h, self, v, key) == dict_setitem(h, self, key, v)

\* DictTree.attach: child = self.__class__(); self[key] = child; return child
attach(h, self, key) ==
    LET child == Len(h) + 1
    IN  [heap |-> __setitem__(DictTree_init(h), self, key, TNode(child)),
         child |-> child]

\* DictTree.parent as a value
parent(h, n) == IF h[n].parent = 0 THEN TNone ELSE TNode(h[n].parent)

\* DictTree.root: while root.parent is not root and root.parent is not None:
\* root = root.parent.  The loop is deterministic, so coming back to a node
\* already visited means it never ends: 0 stands for "does not return".
RECURSIVE root_loop(_, _, _)
root_loop(h, r, seen) ==
    LET p == h[r].parent
    IN  IF p # r /\ p # 0
        THEN IF p \in seen THEN 0 ELSE root_loop(h, p, seen \cup {p})
        ELSE r
root(h, self) == root_loop(h, self, {self})

\* DictTree.up: a negative num_levels is self.root(); otherwise the loop
\* `for i in range(num_levels)` follows node.parent, breaking at a node whose
\* parent is None or the node itself.
RECURSIVE up_loop(_, _, _)
up_loop(h, node, levels) ==
    IF levels = 0 THEN node
    ELSE IF h[node].parent = 0 \/ h[node].parent = node THEN node
    ELSE up_loop(h, h[node].parent, levels - 1)
up(h, self, num_levels) ==
    IF num_levels < 0 THEN root(h, self) ELSE up_loop(h, self, num_levels)

\* Paths are pathlib's PurePosixPath.parts: "/" first when absolute.
is_absolute(path) == Len(path) > 0 /\ path[1] = "/"
path_root(path) == IF is_absolute(path) THEN "/" ELSE ""
path_parent(path) ==
    IF Len(path) = 0 \/ path = <<"/">> THEN path ELSE SubSeq(path, 1, Len(path) - 1)
path_name(path) ==
    IF Len(path) = 0 \/ path = <<"/">> THEN "" ELSE path[Len(path)]

NoExc == [name |-> "", prefix |-> <<>>, key |-> ""]
Raise(name, prefix, key) == [name |-> name, prefix |-> prefix, key |-> key]

\* The for loop of DictTree._walk_path from part i on, node being the node
\* last yielded.  The result is the last node yielded or the exception
\* raised, with `missed`, the index of the first part that node.get(part)
\* did not find (0 if every lookup found its key).
RECURSIVE walk_loop(_, _, _, _, _, _, _)
walk_loop(h, path, i, node, ensure_exists, leaf_node_factory, missed) ==
    IF i > Len(path)
    THEN [node |-> node, exc |-> NoExc, missed |-> missed]
    ELSE
    LET part == path[i]
    IN  IF part = path_root(path)
        THEN walk_loop(h, path, i + 1, node, ensure_exists, leaf_node_factory, missed)
        ELSE IF node = TNone
        THEN IF ensure_exists
             THEN IF i = Len(path) /\ leaf_node_factory # ""
                  \* node[part] = leaf, on None
                  THEN [node |-> node, exc |-> Raise("TypeError", <<>>, ""),
                        missed |-> missed]
                  \* node.attach(part), on None
                  ELSE [node |-> node, exc |-> Raise("AttributeError", <<>>, ""),
                        missed |-> missed]
             ELSE [node |-> node,
                   exc |-> Raise("KeyError", SubSeq(path, 1, i - 1), part),
                   missed |-> missed]
        ELSE IF ~IsTree(node)
        THEN [node |-> node,
              exc |-> Raise("ValueError", SubSeq(path, 1, i), ""),
              missed |-> missed]
        ELSE IF part = ".."
        THEN walk_loop(h, path, i + 1, parent(h, node.n),
                       ensure_exists, leaf_node_factory, missed)
        ELSE LET items == h[node.n].items
                 found == part \in DOMAIN items
             IN  walk_loop(h, path, i + 1, IF found THEN items[part] ELSE TNone,
                           ensure_exists, leaf_node_factory,
                           IF ~found /\ missed = 0 THEN i ELSE missed)

\* DictTree._walk_path, drained: node = self or self.root(), then the loop
_walk_path(h, self, path, ensure_exists, leaf_node_factory) ==
    LET start == IF is_absolute(path) THEN root(h, self) ELSE self
    IN  IF start = 0
        THEN [node |-> TNone, exc |-> Raise("<no return>", <<>>, ""), missed |-> 0]
        ELSE walk_loop(h, path, 1, TNode(start), ensure_exists, leaf_node_factory, 0)

\* DictTree.get_at_path: return list(self._walk_path(path))[-1]; it accepts
\* path and ensure_exists and hands on path alone.
get_at_path_params == {"path", "ensure_exists"}
get_at_path(h, self, path, ensure_exists) ==
    _walk_path(h, self, path, FALSE, "")

\* DictTree.set_at_path: parent = self.get_at_path(path.parent, ...);
\* parent[path.name] = value.  `to` is the container stored into (0: none).
set_at_path(h, self, path, v, ensure_parents_exist) ==
    LET r == get_at_path(h, self, path_parent(path), ensure_parents_exist)
    IN  IF r.exc.name # ""
        THEN [heap |-> h, exc |-> r.exc, to |-> 0]
        ELSE IF ~IsTree(r.node)
        \* item assignment on None or on a leaf integer
        THEN [heap |-> h, exc |-> Raise("TypeError", <<>>, ""), to |-> 0]
        ELSE [heap |-> __setitem__(h, r.node.n, path_name(path), v),
              exc |-> NoExc, to |-> r.node.n]

\* What callers pass as updater: a value (not callable), or a function of the
\* resolved node that returns a leaf ("reducer") or None ("mutator").
Updaters == {"value", "reducer", "mutator"}
UpdaterResult(updater) == IF updater = "reducer" THEN TLeaf(7) ELSE TNone

\* DictTree.update_path: it calls self.get_at_path(path, ensure_exists=True,
\* leaf_node_factory=leaf_node_factory), and a keyword the callee does not
\* accept is a TypeError at the call.
update_path(h, self, path, updater, v, leaf_node_factory) ==
    IF ~({"path", "ensure_exists", "leaf_node_factory"} \subseteq get_at_path_params)
    THEN [heap |-> h, ret |-> TNone, exc |-> Raise("TypeError", <<>>, ""), to |-> 0]
    ELSE LET node == get_at_path(h, self, path, TRUE)
         IN  IF node.exc.name # ""
             THEN [heap |-> h, ret |-> TNone, exc |-> node.exc, to |-> 0]
             ELSE IF updater # "value"
             THEN LET result == UpdaterResult(updater)
                      w == set_at_path(h, self, path, result, FALSE)
                  IN  IF result # TNone
                      THEN [heap |-> w.heap, ret |-> result, exc |-> w.exc, to |-> w.to]
                      ELSE [heap |-> h, ret |-> result, exc |-> NoExc, to |-> 0]
             ELSE LET w == set_at_path(h, self, path, v, FALSE)
                  IN  [heap |-> w.heap, ret |-> v, exc |-> w.exc, to |-> w.to]

-----------------------------------------------------------------------------
(* The state each specification leaves the other parts in *)
NoStore == [c |-> 0, key |-> "", v |-> TNone]
Last(op, self, path, key, v, ensure, updater, missed) ==
    [op |-> op, self |-> self, path |-> path, key |-> key, v |-> v,
     ensure |-> ensure, updater |-> updater, missed |-> missed]

TIdle ==
    /\ heap = DictTree_init(<<>>)
    /\ tlast = Last("new", 1, <<>>, "", TNone, FALSE, "", 0)
    /\ tret = TNode(1)
    /\ texc = NoExc
    /\ tstore = NoStore
    /\ tops = {"new"}
    /\ tsteps = 0
MIdle ==
    /\ m = PyInt(0)
    /\ mop = "new"
    /\ marg = m
    /\ mfn = Function("ident")
    /\ mcalls = 0
    /\ mself = m
    /\ mretself = FALSE
    /\ msteps = 0

CIdle ==
    /\ cm = ContextMonad(Payload(0), DictState(<<>>))
    /\ cret = cm
    /\ cretself = FALSE
    /\ cexc = ""
    /\ cop = "new"
    /\ carg = cm
    /\ cfn = ""
    /\ csteps = 0

-----------------------------------------------------------------------------
(* SpecMaybe *)
Wrapped(v, d) == [v EXCEPT !.depth = d]
PlainInputs == {PyInt(i) : i \in 0..MaxInt} \cup {_Nothing}
MaybeInputs == {Wrapped(v, d) : v \in PlainInputs, d \in 1..MaxDepth}

MInit ==
    /\ m \in PlainInputs \cup MaybeInputs
    /\ mop = "new"
    /\ marg = m
    /\ mfn = Function("ident")
    /\ mcalls = 0
    /\ mself = m
    /\ mretself = FALSE
    /\ msteps = 0
    /\ CIdle
    /\ TIdle

MCanStep == msteps < MaxSteps /\ ~IsExc(m)

\* one call: self is the value it was given as the call left it, retself
\* whether the returned object is that very instance
MStepSelf(op, fn, result, ncalls, self, retself) ==
    /\ result.depth <= MaxDepth
    /\ m' = result
    /\ mop' = op
    /\ marg' = m
    /\ mfn' = fn
    /\ mcalls' = ncalls
    /\ mself' = self
    /\ mretself' = retself
    /\ msteps' = msteps + 1
    /\ UNCHANGED <<cvars, tvars>>

\* unit, Just, fmap, bind and apply build a new instance (cls(...)) and
\* assign to nothing of the value they were given
MStep(op, fn, result, ncalls) == MStepSelf(op, fn, result, ncalls, m, FALSE)

MUnit ==
    /\ MCanStep
    /\ MStep("unit", Function("ident"), unit(m), 0)

MJust ==
    /\ MCanStep
    /\ MStep("Just", Function("ident"), Just(m), 0)

MFmap ==
    /\ MCanStep
    /\ IsMaybe(m)
    /\ \E f \in MonadicFns \cup PlainFns :
          LET r == _fmap_cls_run(Function(f), m)
          IN  MStep("fmap", Function(f), r.ret, IF r.invoked THEN 1 ELSE 0)

MBind ==
    /\ MCanStep
    /\ IsMaybe(m)
    /\ \E f \in MonadicFns :
          LET r == _fmap_cls_run(Function(f), m)
          IN  MStep("bind", Function(f), bind(m, Function(f)),
                    IF r.invoked THEN 1 ELSE 0)

MUnitBind ==
    /\ MCanStep
    /\ \E f \in MonadicFns :
          MStep("unit_bind", Function(f), bind(unit(m), Function(f)), 0)

MApply ==
    /\ MCanStep
    /\ IsMaybe(m)
    /\ \E mf \in {Just(Function(g)) : g \in PlainFns} \cup {Nothing} :
          MStep("apply", mf, apply(mf, m), 0)

\* m.flatten()
MFlatten ==
    /\ MCanStep
    /\ IsMaybe(m)
    /\ LET r == flatten_inplace(m)
       IN  MStepSelf("flatten", Function("ident"), r.ret, 0, r.self, r.same)

\* Maybe.flattened(m)
MFlattened ==
    /\ MCanStep
    /\ IsMaybe(m)
    /\ LET r == flattened(m)
       IN  MStepSelf("flattened", Function("ident"), r.ret, 0, r.self, r.same)

MNext ==
    \/ MUnit \/ MJust \/ MFmap \/ MBind \/ MUnitBind \/ MApply
    \/ MFlatten \/ MFlattened

SpecMaybe == MInit /\ [][MNext]_vars

-----------------------------------------------------------------------------
(* SpecContext *)
CInit ==
    /\ cm \in {ContextMonad(Payload(v), s) : v \in 0..MaxInt, s \in DictStates}
    /\ cret = cm
    /\ cretself = FALSE
    /\ cexc = ""
    /\ cop = "new"
    /\ carg = cm
    /\ cfn = ""
    /\ csteps = 0
    /\ MIdle
    /\ TIdle

CStep(op, fn, self, ret, exc, retself) ==
    /\ csteps < MaxCtxSteps
    /\ cm' = self
    /\ cret' = ret
    /\ cretself' = retself
    /\ cexc' = exc
    /\ cop' = op
    /\ carg' = cm
    /\ cfn' = fn
    /\ csteps' = csteps + 1
    /\ UNCHANGED <<mvars, tvars>>

\* ContextMonad(cm, s): the instance becomes the payload of a new outer one
CWrap ==
    /\ Len(cm.states) < MaxCtxDepth
    /\ \E s \in DictStates :
          CStep("ContextMonad", "", ContextMonad(cm, s), ContextMonad(cm, s), "",
                TRUE)

\* cm.flatten(): mutates cm (also when it raises half-way) and returns it
CFlatten ==
    LET r == ContextMonad_flatten(cm)
    IN  CStep("flatten", "", r.self, r.ret, r.exc, r.same)

\* Monad.flattened(cm): result = copy.copy(cm); _flatten_cls(result)
CFlattened ==
    LET r == ContextMonad_flattened(cm)
    IN  CStep("flattened", "", r.self, r.ret, r.exc, r.same)

\* cm.bind(f)
CBind ==
    \E f \in CtxFns :
        LET r == ContextMonad_bind(cm, f)
        IN  CStep("bind", f, cm, r.inst, r.exc, FALSE)

\* cm.fmap(f)
CFmap ==
    \E f \in CtxFns :
        LET r == ContextMonad_fmap_cls(f, cm)
        IN  CStep("fmap", f, cm, r.inst, r.exc, FALSE)

\* ContextMonad.unit(v)
CUnit ==
    \E v \in 0..MaxInt :
        LET r == ContextMonad_unit(v)
        IN  CStep("unit", "", cm, r.inst, r.exc, FALSE)

CNext == CWrap \/ CFlatten \/ CFlattened \/ CBind \/ CFmap \/ CUnit

SpecContext == CInit /\ [][CNext]_vars

-----------------------------------------------------------------------------
(* Spec: a heap of DictTree nodes under the tree's operations *)
TreeValues == {TLeaf(42)} \cup {TNode(n) : n \in 1..Len(heap)}
TreePaths ==
    {<<"/", "a">>, <<"/", "a", "b">>, <<"a">>, <<"a", "b">>, <<"..", "a">>}

Init ==
    /\ TIdle
    /\ MIdle
    /\ CIdle

TStep(last, h, ret, exc, store) ==
    /\ tsteps < MaxTreeSteps
    /\ heap' = h
    /\ tlast' = last
    /\ tret' = ret
    /\ texc' = exc
    /\ tstore' = store
    /\ tops' = tops \cup {last.op}
    /\ tsteps' = tsteps + 1
    /\ UNCHANGED <<mvars, cvars>>

Hung == texc.name = "<no return>"
Nodes == 1..Len(heap)

\* DictTree(): a node of its own, with no parent
New ==
    /\ ~Hung
    /\ Len(heap) < MaxNodes
    /\ TStep(Last("new", Len(heap) + 1, <<>>, "", TNone, FALSE, "", 0),
             DictTree_init(heap), TNode(Len(heap) + 1), NoExc, NoStore)

\* self.attach(key)
Attach ==
    /\ ~Hung
    /\ Len(heap) < MaxNodes
    /\ \E self \in Nodes, key \in TreeKeys :
          LET r == attach(heap, self, key)
          IN  TStep(Last("attach", self, <<>>, key, TNode(r.child), FALSE, "", 0),
                    r.heap, TNode(r.child), NoExc,
                    [c |-> self, key |-> key, v |-> TNode(r.child)])

\* self[key] = v
SetItem ==
    /\ ~Hung
    /\ \E self \in Nodes, key \in TreeKeys, v \in TreeValues :
          TStep(Last("setitem", self, <<>>, key, v, FALSE, "", 0),
                __setitem__(heap, self, key, v), TNone, NoExc,
                [c |-> self, key |-> key, v |-> v])

\* del self[key]
DelItem ==
    /\ ~Hung
    /\ \E self \in Nodes, key \in TreeKeys :
          IF key \in DOMAIN heap[self].items
          THEN TStep(Last("delitem", self, <<>>, key, TNone, FALSE, "", 0),
                     dict_delitem(heap, self, key), TNone, NoExc, NoStore)
          ELSE TStep(Last("delitem", self, <<>>, key, TNone, FALSE, "", 0),
                     heap, TNone, Raise("KeyError", <<>>, key), NoStore)

\* self.insert_at(v, key)
InsertAt ==
    /\ ~Hung
    /\ \E self \in Nodes, key \in TreeKeys, v \in TreeValues :
          TStep(Last("insert_at", self, <<>>, key, v, FALSE, "", 0),
                insert_at(heap, self, v, key), TNone, NoExc,
                [c |-> self, key |-> key, v |-> v])

\* self.get_at_path(path)
GetAtPath ==
    /\ ~Hung
    /\ \E self \in Nodes, path \in TreePaths :
          LET r == get_at_path(heap, self, path, FALSE)
          IN  TStep(Last("get_at_path", self, path, "", TNone, FALSE, "", r.missed),
                    heap, IF r.exc.name = "" THEN r.node ELSE TNone, r.exc, NoStore)

\* self.set_at_path(path, v, ensure_parents_exist)
SetAtPath ==
    /\ ~Hung
    /\ \E self \in Nodes, path \in TreePaths, v \in TreeValues, ensure \in BOOLEAN :
          LET r == set_at_path(heap, self, path, v, ensure)
              pre == get_at_path(heap, self, path_parent(path), FALSE)
          IN  TStep(Last("set_at_path", self, path, path_name(path), v, ensure, "",
                         pre.missed),
                    r.heap, TNone, r.exc,
                    IF r.to = 0 THEN NoStore
                    ELSE [c |-> r.to, key |-> path_name(path), v |-> v])

\* self.update_path(path, updater, leaf_node_factory=DictTree)
UpdatePath ==
    /\ ~Hung
    /\ \E self \in Nodes, path \in TreePaths, updater \in Updaters :
          LET r == update_path(heap, self, path, updater, TLeaf(42), "DictTree")
          IN  TStep(Last("update_path", self, path, path_name(path), TLeaf(42),
                         TRUE, updater, 0),
                    r.heap, r.ret, r.exc,
                    IF r.to = 0 THEN NoStore
                    ELSE [c |-> r.to, key |-> path_name(path), v |-> r.ret])

\* a call that returns node r, or does not return when r = 0
Upward(last, r) ==
    IF r = 0
    THEN TStep(last, heap, TNone, Raise("<no return>", <<>>, ""), NoStore)
    ELSE TStep(last, heap, TNode(r), NoExc, NoStore)

\* self.root()
Root ==
    /\ ~Hung
    /\ \E self \in Nodes :
          Upward(Last("root", self, <<>>, "", TNone, FALSE, "", 0), root(heap, self))

\* self.up(num_levels); the record's v holds num_levels
UpLevels == {-1, 0, 1, 2}
Up ==
    /\ ~Hung
    /\ \E self \in Nodes, num_levels \in UpLevels :
          Upward(Last("up", self, <<>>, "", TLeaf(num_levels), FALSE, "", 0),
                 up(heap, self, num_levels))

Next ==
    \/ New \/ Attach \/ SetItem \/ DelItem \/ InsertAt
    \/ GetAtPath \/ SetAtPath \/ UpdatePath
    \/ Root \/ Up

Spec == Init /\ [][Next]_vars

-----------------------------------------------------------------------------
(* Properties of Maybe *)

\* the payload left when every Maybe wrapper is removed
Innermost(v) == [v EXCEPT !.depth = 0]
\* a plain value: not a Maybe and not the sentinel
IsPlain(v) == ~IsMaybe(v) /\ v # _Nothing

\* result agrees with fx flattened: absent exactly when fx's innermost
\* payload is the sentinel, and otherwise carrying that payload
AgreesFlattened(result, fx) ==
    /\ IsMaybe(result)
    /\ is_nothing(result) <=> (Innermost(fx) = _Nothing)
    /\ ~is_nothing(result) => _value(result) = Innermost(fx)

\* C1 as claimed: for every x unit accepts (plain or already wrapped) and
\* every f returning a Maybe, unit(x).bind(f) agrees with f(x) flattened.
C1_LeftIdentityAnyX ==
    mop = "unit_bind" => AgreesFlattened(m, Call(mfn, marg))

\* C1 amended: for every plain x (not a Maybe, not the sentinel) and every f
\* returning a Maybe, unit(x).bind(f) is absent exactly when f(x) flattened
\* is absent and otherwise carries the payload of f(x) flattened.
C1_LeftIdentityPlainX ==
    (mop = "unit_bind" /\ IsPlain(marg)) => AgreesFlattened(m, Call(mfn, marg))

\* a plain x whose f(x) is a nested present Maybe, collapsed by bind
C1_Witness ==
    /\ mop = "unit_bind"
    /\ IsPlain(marg)
    /\ Call(mfn, marg).depth > 1
    /\ ~is_nothing(m)
    /\ _value(m) = marg

\* C2: in a chain of fmap and bind steps, a step taken on an absent Maybe
\* returns an absent Maybe and does not invoke the function it was given.
C2_NothingPropagates ==
    [][(is_nothing(m) /\ mop' \in {"fmap", "bind"})
          => (is_nothing(m') /\ mcalls' = 0)]_vars

\* a present Maybe made absent by a bind whose function returned Nothing,
\* followed by a further step that stayed absent
C2_Witness ==
    /\ msteps > 1
    /\ mop \in {"fmap", "bind"}
    /\ mfn.name \notin {"const_nothing", "just_nothing"}
    /\ is_nothing(marg)
    /\ is_nothing(m)
    /\ mcalls = 0

\* C3: for every Maybe v, Just(v) and Maybe.unit(v) return a single-level
\* Maybe that is absent exactly when v flattened is absent and otherwise
\* carries the payload of v flattened.
C3_NoDoubleWrap ==
    (mop \in {"Just", "unit"} /\ IsMaybe(marg)) => 
        (m.depth = 1 /\ AgreesFlattened(m, marg))

\* C4: apply(monad_function, monad_instance) never raises; for Just(g) and
\* Just(x) it returns a Maybe with payload g(x); it is absent when either
\* argument is Nothing.
C4_ApplyUnwrapsAppliesRewraps ==
    mop = "apply" =>
        /\ ~IsExc(m)
        /\ (is_nothing(mfn) \/ is_nothing(marg)) => is_nothing(m)
        /\ (~is_nothing(mfn) /\ marg.depth = 1 /\ ~is_nothing(marg))
              => m = Maybe(Call(_value(mfn), _value(marg)))

-----------------------------------------------------------------------------
(* Properties of ContextMonad *)

\* s1 + s2 + ... + sk as mappings, in outer-to-inner order, later keys winning
RECURSIVE RightBiasedSum(_)
RightBiasedSum(states) ==
    IF Len(states) = 1 THEN states[1].map
    ELSE LET rest == RightBiasedSum(Tail(states))
             first == states[1].map
         IN  [k \in DOMAIN first \cup DOMAIN rest |->
                 IF k \in DOMAIN rest THEN rest[k] ELSE first[k]]

AllDictState(states) == \A i \in 1..Len(states) : states[i].cls = "DictState"

\* the operation returned one level holding payload v and the sum of states
Accumulated(states, v) ==
    /\ cexc = ""
    /\ Len(cret.states) = 1
    /\ cret.val = v
    /\ cret.states[1].map = RightBiasedSum(states)

\* C5: flatten on a ContextMonad nested to depth k >= 2 with DictState states
\* s1..sk, and bind of a function returning a ContextMonad, yield one level
\* holding the innermost payload and the state s1 + ... + sk, later keys
\* winning.
C5_StateAccumulation ==
    /\ (cop = "flatten" /\ Len(carg.states) > 1 /\ AllDictState(carg.states))
          => Accumulated(carg.states, carg.val)
    /\ (cop = "bind" /\ Len(carg.states) = 1 /\ AllDictState(carg.states))
          => Accumulated(carg.states \o CtxFnStates(cfn), carg.val)

\* the Maybe half of C11: flattened returns another instance, one level
\* around the innermost payload, and leaves m as it was; fmap leaves m as it
\* was; flatten returns m itself, one level around the innermost payload;
\* no operation but flatten changes the instance it is called on.
C11_MaybeHalf ==
    /\ mop = "flattened" =>
          /\ ~mretself
          /\ m.depth = 1 /\ Innermost(m) = Innermost(marg)
          /\ mself = marg
    /\ mop = "flatten" =>
          /\ mretself /\ m = mself
          /\ m.depth = 1 /\ Innermost(m) = Innermost(marg)
    /\ mop # "flatten" => mself = marg

\* the ContextMonad half of C11, with the same four parts
C11_ContextHalf ==
    /\ cop = "flattened" =>
          /\ cexc = "" /\ ~cretself
          /\ Len(cret.states) = 1 /\ cret.val = carg.val
          /\ cm = carg
    /\ cop = "flatten" =>
          /\ cexc = "" /\ cretself /\ cret = cm
          /\ Len(cm.states) = 1 /\ cm.val = carg.val
    /\ cop \in {"fmap", "bind", "unit", "flattened"} => cm = carg

\* C11: for every instance m, Maybe or ContextMonad, at any nesting depth,
\* flattened(m) returns a distinct single-level instance and leaves m's
\* payload, depth and state as they were, fmap leaves m unchanged, and only
\* flatten() changes m in place, returning m itself.
C11_PureVersusMutatingFlatten == C11_MaybeHalf /\ C11_ContextHalf

-----------------------------------------------------------------------------
(* Properties of DictTree *)

\* what path resolves to from the last operation's node in the current heap
ResolvesTo(path) == get_at_path(heap, tlast.self, path, FALSE)

\* C6: set_at_path(path, value, ensure_parents_exist=True) on a path whose
\* intermediate keys do not yet exist raises nothing, creates every
\* intermediate as a tree node, and get_at_path(path) then returns value.
C6_SetThenGetLazyCreation ==
    (tlast.op = "set_at_path" /\ tlast.ensure /\ tlast.missed > 0) =>
        /\ texc.name = ""
        /\ ResolvesTo(tlast.path).exc.name = ""
        /\ ResolvesTo(tlast.path).node = tlast.v
        /\ \A j \in 1..(Len(tlast.path) - 1) :
              tlast.path[j] # "/" => IsTree(ResolvesTo(SubSeq(tlast.path, 1, j)).node)

\* C7: after any operation that stores a tree node v under a key of
\* container c (attach, c[key] = v, set_at_path, insert_at, update_path),
\* v.parent is c.
C7_ParentRewiredOnStore ==
    (tstore.c # 0 /\ IsTree(tstore.v)) => heap[tstore.v.n].parent = tstore.c

\* C8: in every state reached by attach, key assignment (overwriting
\* included) and key deletion alone, every node whose parent is p is one of
\* p's direct values.
C8_ParentHoldsChild ==
    tops \subseteq {"new", "attach", "setitem", "delitem"} =>
        \A n \in Nodes :
            heap[n].parent # 0 =>
                \E k \in DOMAIN heap[heap[n].parent].items :
                    heap[heap[n].parent].items[k] = TNode(n)

\* the elements of a sequence
Elems(seq) == {seq[i] : i \in 1..Len(seq)}

\* C9: get_at_path(path) raises the missing-child error (KeyError) whenever a
\* key of the path, intermediate or final, is absent from the node it is
\* looked up in, and the error names that key; it never returns a value.
C9_MissingChildRaises ==
    (tlast.op = "get_at_path" /\ tlast.missed > 0) =>
        /\ texc.name = "KeyError"
        /\ tlast.path[tlast.missed] \in Elems(texc.prefix) \cup {texc.key}

\* C10: update_path(path, updater) raises nothing; a non-callable updater is
\* written to path and returned; a callable's non-null result is written to
\* path and returned; a null result is returned and nothing is written.
C10_UpdatePathWritesWhatItReturns ==
    tlast.op = "update_path" =>
        /\ texc.name = ""
        /\ tlast.updater = "value" =>
              (tret = tlast.v /\ ResolvesTo(tlast.path).node = tlast.v)
        /\ tlast.updater = "reducer" =>
              (tret = UpdaterResult("reducer")
               /\ ResolvesTo(tlast.path).node = UpdaterResult("reducer"))
        /\ tlast.updater = "mutator" => (tret = TNone /\ tstore = NoStore)

\* the tree was built by DictTree(), attach and key assignment alone
BuiltByAttachAndAssign ==
    tops \subseteq {"new", "attach", "setitem", "root", "up", "get_at_path"}
Returned == texc.name # "<no return>"

\* C12: in every tree built by attach and key assignments (a node under
\* itself and an ancestor under its descendant included), root(), up(n) for
\* every n and the resolution of an absolute path return; root() returns a
\* node whose parent is None or that node itself, and up(n) with n < 0
\* returns the node root() returns.
C12_UpwardNavigationTerminates ==
    BuiltByAttachAndAssign =>
        /\ tlast.op \in {"root", "up"} => Returned
        /\ (tlast.op = "get_at_path" /\ is_absolute(tlast.path)) => Returned
        /\ tlast.op = "root" =>
              /\ IsTree(tret)
              /\ heap[tret.n].parent \in {0, tret.n}
        /\ (tlast.op = "up" /\ tlast.v.n < 0) =>
              /\ IsTree(tret)
              /\ tret.n = root(heap, tlast.self)

====
